---- MODULE Spec2Model ----
(***************************************************************************)
(* Model of the Trivia backend (backend/flaskr/__init__.py): the seven     *)
(* request handlers, the pagination helper and the error handlers, over a  *)
(* store of Question rows and Category rows.                               *)
(*                                                                         *)
(* Text is a sequence of one-character strings, so that the ILIKE match of *)
(* the search handler is computed character by character.  An optional     *)
(* value (Python None, a missing query argument) is a sequence of length   *)
(* 0 or 1.  A JSON value of a request body is a record [t, s, n, l] whose  *)
(* tag t says which of the other fields is meant.                          *)
(***************************************************************************)
EXTENDS Integers, Sequences, FiniteSets

VARIABLES
    rows,        \* the questions table, in the order the storage returns it
    nextId,      \* the id the storage assigns to the next inserted question
    categories,  \* the categories table: id -> type label
    pc,          \* "idle", or "quiz_loop" while quiz_get_next_question draws
    req,         \* the request being (or last) handled
    resp,        \* the response to req (status 0 while none was sent)
    quiz,        \* locals of quiz_get_next_question: questions, next_question
    faulted      \* whether a storage call made for req raised

vars == <<rows, nextId, categories, pc, req, resp, quiz, faulted>>

---------------------------------------------------------------------------
(* Bounds of the model *)

\* number of questions of the seeded table
MaxSeed == 12

\* number of questions that may be created on top of the seeded ones
MaxCreate == 1

(* Program constant *)
QUESTIONS_PER_PAGE == 10

---------------------------------------------------------------------------
(* JSON values of request bodies *)

JAbsent == [t |-> "absent", s |-> <<>>, n |-> 0, l |-> <<>>]
JStr(s) == [t |-> "str", s |-> s, n |-> 0, l |-> <<>>]
JInt(n) == [t |-> "int", s |-> <<>>, n |-> n, l |-> <<>>]
JList(l) == [t |-> "list", s |-> <<>>, n |-> 0, l |-> l]
\* an object with an 'id' key, as quiz_category is
JObj(id) == [t |-> "obj", s |-> <<>>, n |-> id, l |-> <<>>]

\* data.get(key, ''): the default stands in for a key that is not there
GetOrEmpty(v) == IF v.t = "absent" THEN JStr(<<>>) ELSE v

EmptyBody ==
    [question |-> JAbsent, answer |-> JAbsent, difficulty |-> JAbsent,
     category |-> JAbsent, searchTerm |-> JAbsent,
     previous_questions |-> JAbsent, quiz_category |-> JAbsent]

---------------------------------------------------------------------------
(* The store *)

CategoryRows ==
    [c \in {1, 2, 3} |->
        IF c = 1 THEN "Science" ELSE IF c = 2 THEN "Art" ELSE "History"]

\* seeded question i: every second text is "La", the others "al"; question 1
\* is the only one of category 2, category 3 has no question
SeedQuestion(i) ==
    [id |-> i,
     question |-> IF i % 2 = 1 THEN <<"L", "a">> ELSE <<"a", "l">>,
     answer |-> <<"x">>,
     difficulty |-> 1,
     category |-> IF i = 1 THEN 2 ELSE 1]

SeedRows == [i \in 1..MaxSeed |-> SeedQuestion(i)]

\* Question.format()
Format(q) ==
    [id |-> q.id, question |-> q.question, answer |-> q.answer,
     category |-> q.category, difficulty |-> q.difficulty]

FormatAll(questions) == [i \in DOMAIN questions |-> Format(questions[i])]

RemoveAt(s, i) == SubSeq(s, 1, i - 1) \o SubSeq(s, i + 1, Len(s))

InsertAt(s, i, e) == SubSeq(s, 1, i) \o <<e>> \o SubSeq(s, i + 1, Len(s))

\* Question.query.all(): the rows in the order the table holds them
QueryAll(table) == table

\* Question.query.order_by(Question.id).all()
RECURSIVE OrderById(_)
OrderById(table) ==
    IF table = <<>> THEN <<>>
    ELSE LET m == CHOOSE i \in DOMAIN table :
                      \A j \in DOMAIN table : table[i].id <= table[j].id
         IN  <<table[m]>> \o OrderById(RemoveAt(table, m))

\* Question.query.filter_by(category=c).all()
RECURSIVE FilterByCategory(_, _)
FilterByCategory(table, c) ==
    IF table = <<>> THEN <<>>
    ELSE (IF Head(table).category = c THEN <<Head(table)>> ELSE <<>>)
         \o FilterByCategory(Tail(table), c)

\* Question.query.get(id): the row, or None
QueryGet(table, id) ==
    IF \E i \in DOMAIN table : table[i].id = id
    THEN <<table[CHOOSE i \in DOMAIN table : table[i].id = id]>>
    ELSE <<>>

\* question.delete()
DeleteRow(table, id) == SelectSeq(table, LAMBDA q : q.id # id)

\* Question(...).insert(): the storage assigns the id and places the row; a
\* query without order_by gives no order, so the row comes first or last
InsertRow(table, pos, q) == InsertAt(table, pos, q)

---------------------------------------------------------------------------
(* ILIKE *)

Lower(c) == IF c = "L" THEN "l" ELSE IF c = "A" THEN "a" ELSE c

LowerAll(s) == [i \in DOMAIN s |-> Lower(s[i])]

\* SQL LIKE: % matches any run of characters, _ any one character
RECURSIVE Like(_, _)
Like(text, pattern) ==
    IF pattern = <<>> THEN text = <<>>
    ELSE IF Head(pattern) = "%"
         THEN Like(text, Tail(pattern))
              \/ (text # <<>> /\ Like(Tail(text), pattern))
         ELSE /\ text # <<>>
              /\ (Head(pattern) = "_" \/ Head(pattern) = Head(text))
              /\ Like(Tail(text), Tail(pattern))

\* Question.question.ilike(pattern)
ILike(text, pattern) == Like(LowerAll(text), LowerAll(pattern))

\* Question.query.filter(Question.question.ilike(pattern)).all()
RECURSIVE FilterILike(_, _)
FilterILike(table, pattern) ==
    IF table = <<>> THEN <<>>
    ELSE (IF ILike(Head(table).question, pattern) THEN <<Head(table)>> ELSE <<>>)
         \o FilterILike(Tail(table), pattern)

---------------------------------------------------------------------------
(* __get_paginated_questions *)

\* request.args.get('page', 1, type=int)
ParsePage(arg) == IF arg = <<>> THEN 1 ELSE arg[1]

Min(a, b) == IF a <= b THEN a ELSE b
Max(a, b) == IF a >= b THEN a ELSE b

\* a slice bound of Python: a negative index counts from the end
SliceIndex(k, len) == IF k < 0 THEN Max(0, len + k) ELSE Min(k, len)

\* s[start:end]
PySlice(s, start, end) ==
    LET lo == SliceIndex(start, Len(s))
        hi == SliceIndex(end, Len(s))
    IN  IF lo < hi THEN SubSeq(s, lo + 1, hi) ELSE <<>>

__get_paginated_questions_skewed(arg, questions, num_of_questions) ==
    LET page == ParsePage(arg)
        start == page * num_of_questions
        end == start + num_of_questions
    IN  PySlice(FormatAll(questions), start, end)

__get_paginated_questions(arg, questions, num_of_questions) ==
    LET page == ParsePage(arg)
        start == (page - 1) * num_of_questions
        end == start + num_of_questions
    IN  PySlice(FormatAll(questions), start, end)

---------------------------------------------------------------------------
(* Responses *)

NoQuestions == <<>>
NoCategories == <<>>

Response(status, questions, total, cats, current, question, message) ==
    [status |-> status, success |-> TRUE, error |-> 0, message |-> message,
     questions |-> questions, total_questions |-> total, categories |-> cats,
     current_category |-> current, question |-> question]

NoResponse ==
    [status |-> 0, success |-> FALSE, error |-> 0, message |-> "",
     questions |-> NoQuestions, total_questions |-> -1,
     categories |-> NoCategories, current_category |-> "", question |-> <<>>]

ErrorMessage(code) ==
    CASE code = 400 -> "Bad request error"
      [] code = 404 -> "Resource not found"
      [] code = 500 -> "An error has occured, please try again"
      [] code = 422 -> "Unprocessable entity"

\* abort(code), answered by the error handler registered for the code; an
\* exception no handler catches is answered by the handler of 500
Abort(code) ==
    [status |-> code, success |-> FALSE, error |-> code,
     message |-> ErrorMessage(code),
     questions |-> NoQuestions, total_questions |-> -1,
     categories |-> NoCategories, current_category |-> "", question |-> <<>>]

Request(route, page, id, body) ==
    [route |-> route, page |-> page, id |-> id, body |-> body]

NoRequest == Request("none", <<>>, 0, EmptyBody)

NoQuiz == [questions |-> <<>>, next_question |-> <<>>]

\* categories_dict
CategoriesDict(cats) == [c \in DOMAIN cats |-> cats[c]]

---------------------------------------------------------------------------
(* Inputs *)

\* the page argument of GET /questions: none, or an integer
Pages == {<<>>, <<-1>>, <<0>>, <<1>>, <<2>>, <<3>>}

\* the page argument of the search and of the questions of a category
FewPages == {<<>>, <<-1>>, <<2>>}

MaxId == MaxSeed + MaxCreate

\* the first two seeded ids, the first created id, an id never stored
DeleteIds == {1, 2, MaxSeed + 1, MaxId + 1}

CategoryIds == {1, 2, 3, 9}

Fields == {"question", "answer", "difficulty", "category"}

Body(question, category) ==
    [EmptyBody EXCEPT !.question = JStr(question), !.answer = JStr(<<"x">>),
                      !.difficulty = JInt(1), !.category = JInt(category)]

\* two well-formed bodies, the first of them with one field left out or
\* empty, and the body without any field
CreateBodies ==
    {Body(<<"L", "a">>, 1), Body(<<"b">>, 2)}
    \cup {[Body(<<"L", "a">>, 1) EXCEPT ![f] = v] :
             f \in Fields, v \in {JAbsent, JStr(<<>>)}}
    \cup {EmptyBody}

SearchTerms ==
    {JAbsent, JStr(<<>>), JStr(<<"l">>), JStr(<<"L", "A">>), JStr(<<"z">>),
     JStr(<<"_">>)}

SearchBodies == {[EmptyBody EXCEPT !.searchTerm = t] : t \in SearchTerms}

PreviousLists ==
    {JAbsent, JList(<<>>), JList(<<1>>), JList(<<1, MaxSeed + 1>>)}

QuizCategories == {JAbsent, JObj(0), JObj(1), JObj(2), JObj(3)}

QuizBodies ==
    {[EmptyBody EXCEPT !.previous_questions = p, !.quiz_category = c] :
        p \in PreviousLists, c \in QuizCategories}

---------------------------------------------------------------------------
Init ==
    /\ rows \in {<<>>, SeedRows}
    /\ nextId = MaxSeed + 1
    /\ categories = CategoryRows
    /\ pc = "idle"
    /\ req = NoRequest
    /\ resp = NoResponse
    /\ quiz = NoQuiz
    /\ faulted = FALSE

\* GET /categories
get_all_categories(fault) ==
    /\ pc = "idle"
    /\ req' = Request("GET /categories", <<>>, 0, EmptyBody)
    /\ resp' = IF fault THEN Abort(500)
               ELSE Response(200, NoQuestions, -1, CategoriesDict(categories),
                             "", <<>>, "")
    /\ faulted' = fault
    /\ UNCHANGED <<rows, nextId, categories, pc, quiz>>

\* GET /questions?page=N
get_questions(page, fault) ==
    /\ pc = "idle"
    /\ req' = Request("GET /questions", page, 0, EmptyBody)
    /\ resp' =
         IF fault THEN Abort(500)
         ELSE LET questions == OrderById(rows)
                  total_questions == Len(questions)
                  current_questions ==
                      __get_paginated_questions(page, questions, QUESTIONS_PER_PAGE)
              IN  IF Len(current_questions) = 0 THEN Abort(404)
                  ELSE Response(200, current_questions, total_questions,
                                CategoriesDict(categories), "", <<>>, "")
    /\ faulted' = fault
    /\ UNCHANGED <<rows, nextId, categories, pc, quiz>>

\* DELETE /questions/<int:id>: the try block raises when the storage faults
\* and when the lookup gave None, which has no delete()
DeleteRaisesOnFaultOnly(question, fault) == fault

DeleteRaises(question, fault) == fault \/ question = <<>>

\* delete_question with the row removed before the storage raises
delete_question_then_raise(id, fault) ==
    /\ pc = "idle"
    /\ req' = Request("DELETE /questions/<id>", <<>>, id, EmptyBody)
    /\ LET question == QueryGet(rows, id)
       IN  /\ resp' = IF DeleteRaises(question, fault) THEN Abort(422)
                      ELSE Response(200, NoQuestions, -1, NoCategories, "", <<>>,
                                    "Question successfully deleted")
           /\ rows' = DeleteRow(rows, id)
    /\ faulted' = fault
    /\ UNCHANGED <<nextId, categories, pc, quiz>>

delete_question(id, fault) ==
    /\ pc = "idle"
    /\ req' = Request("DELETE /questions/<id>", <<>>, id, EmptyBody)
    /\ LET question == QueryGet(rows, id)
       IN  IF DeleteRaises(question, fault)
           THEN /\ resp' = Abort(422)
                /\ rows' = rows
           ELSE /\ resp' = Response(200, NoQuestions, -1, NoCategories, "", <<>>,
                                    "Question successfully deleted")
                /\ rows' = DeleteRow(rows, id)
    /\ faulted' = fault
    /\ UNCHANGED <<nextId, categories, pc, quiz>>

\* POST /questions: the validation of the four fields
HasEmptyFieldButCategory(question, answer, difficulty, category) ==
    \/ question = JStr(<<>>)
    \/ answer = JStr(<<>>)
    \/ difficulty = JStr(<<>>)

HasEmptyField(question, answer, difficulty, category) ==
    \/ question = JStr(<<>>)
    \/ answer = JStr(<<>>)
    \/ difficulty = JStr(<<>>)
    \/ category = JStr(<<>>)

create_question(data, front, fault) ==
    /\ pc = "idle"
    /\ req' = Request("POST /questions", <<>>, 0, data)
    /\ LET question == GetOrEmpty(data.question)
           answer == GetOrEmpty(data.answer)
           difficulty == GetOrEmpty(data.difficulty)
           category == GetOrEmpty(data.category)
       IN  IF HasEmptyField(question, answer, difficulty, category)
           THEN /\ resp' = Abort(422)
                /\ faulted' = FALSE
                /\ UNCHANGED <<rows, nextId>>
           ELSE IF fault
           THEN /\ resp' = Abort(422)
                /\ faulted' = TRUE
                /\ UNCHANGED <<rows, nextId>>
           ELSE /\ nextId <= MaxId
                /\ faulted' = FALSE
                /\ rows' = InsertRow(rows, IF front THEN 0 ELSE Len(rows),
                                     [id |-> nextId, question |-> question.s,
                                      answer |-> answer.s,
                                      difficulty |-> difficulty.n,
                                      category |-> category.n])
                /\ nextId' = nextId + 1
                /\ resp' = Response(201, NoQuestions, -1, NoCategories, "", <<>>,
                                    "Question successfully created!")
    /\ UNCHANGED <<categories, pc, quiz>>

\* POST /questions/search
search_questions(data, page, fault) ==
    /\ pc = "idle"
    /\ req' = Request("POST /questions/search", page, 0, data)
    /\ resp' =
         LET search_term == GetOrEmpty(data.searchTerm)
         IN  IF search_term = JStr(<<>>) THEN Abort(422)
             ELSE IF fault THEN Abort(404)
             ELSE LET pattern == <<"%">> \o search_term.s \o <<"%">>
                      questions == FilterILike(QueryAll(rows), pattern)
                  IN  IF Len(questions) = 0 THEN Abort(404)
                      ELSE Response(200,
                                    __get_paginated_questions(
                                        page, questions, QUESTIONS_PER_PAGE),
                                    Len(QueryAll(rows)), NoCategories, "", <<>>, "")
    /\ faulted' = (fault /\ GetOrEmpty(data.searchTerm) # JStr(<<>>))
    /\ UNCHANGED <<rows, nextId, categories, pc, quiz>>

\* 'total_questions' of GET /categories/<int:id>/questions
TotalOfTable(table, questions) == Len(table)

TotalOfCategory(table, questions) == Len(questions)

\* GET /categories/<int:id>/questions
get_questions_by_category(id, page, fault) ==
    /\ pc = "idle"
    /\ req' = Request("GET /categories/<id>/questions", page, id, EmptyBody)
    /\ resp' =
         IF fault THEN Abort(500)
         ELSE IF id \notin DOMAIN categories THEN Abort(422)
         ELSE LET questions == FilterByCategory(QueryAll(rows), id)
              IN  Response(200,
                           __get_paginated_questions(
                               page, questions, QUESTIONS_PER_PAGE),
                           TotalOfCategory(rows, questions), NoCategories,
                           categories[id], <<>>, "")
    /\ faulted' = fault
    /\ UNCHANGED <<rows, nextId, categories, pc, quiz>>

\* POST /quizzes: the check of the two fields
MissingBothQuizFields(quiz_category, previous_questions) ==
    quiz_category.t = "absent" /\ previous_questions.t = "absent"

MissingQuizField(quiz_category, previous_questions) ==
    quiz_category.t = "absent" \/ previous_questions.t = "absent"

\* the candidates of the quiz
QuizPool(table, id) ==
    IF id = 0 THEN QueryAll(table) ELSE FilterByCategory(QueryAll(table), id)

\* next_question.id in previous_questions
IsPreviousNever(id, previous) == FALSE

IsPrevious(id, previous) == \E i \in DOMAIN previous : previous[i] = id

\* POST /quizzes, up to the first draw
quiz_get_next_question(data, fault) ==
    /\ pc = "idle"
    /\ req' = Request("POST /quizzes", <<>>, 0, data)
    /\ LET previous_questions == data.previous_questions
           quiz_category == data.quiz_category
       IN  IF MissingQuizField(quiz_category, previous_questions)
           THEN /\ resp' = Abort(400)
                /\ faulted' = FALSE
                /\ UNCHANGED <<pc, quiz>>
           ELSE IF quiz_category.t # "obj"
           THEN \* None['id'] raises TypeError
                /\ resp' = Abort(500)
                /\ faulted' = FALSE
                /\ UNCHANGED <<pc, quiz>>
           ELSE IF fault
           THEN /\ resp' = Abort(500)
                /\ faulted' = TRUE
                /\ UNCHANGED <<pc, quiz>>
           ELSE LET questions == QuizPool(rows, quiz_category.n)
                IN  IF Len(questions) = 0
                    THEN \* random.randint(0, -1) raises ValueError
                         /\ resp' = Abort(500)
                         /\ faulted' = FALSE
                         /\ UNCHANGED <<pc, quiz>>
                    ELSE /\ faulted' = FALSE
                         /\ \E k \in 1..Len(questions) :
                              quiz' = [questions |-> questions,
                                       next_question |-> <<questions[k]>>]
                         /\ pc' = "quiz_loop"
                         /\ resp' = NoResponse
    /\ UNCHANGED <<rows, nextId, categories>>

\* one pass of `while found`
quiz_loop ==
    /\ pc = "quiz_loop"
    /\ LET previous_questions == req.body.previous_questions
           next_question == quiz.next_question[1]
       IN  IF previous_questions.t # "list"
           THEN \* `in None` raises TypeError
                /\ resp' = Abort(500)
                /\ pc' = "idle"
                /\ quiz' = NoQuiz
           ELSE IF IsPrevious(next_question.id, previous_questions.l)
           THEN /\ \E k \in 1..Len(quiz.questions) :
                     quiz' = [quiz EXCEPT !.next_question = <<quiz.questions[k]>>]
                /\ UNCHANGED <<pc, resp>>
           ELSE /\ resp' = Response(200, NoQuestions, -1, NoCategories, "",
                                    <<Format(next_question)>>, "")
                /\ pc' = "idle"
                /\ quiz' = NoQuiz
    /\ UNCHANGED <<rows, nextId, categories, req, faulted>>

Step(Faults) ==
    \/ \E fault \in Faults : get_all_categories(fault)
    \/ \E page \in Pages, fault \in Faults : get_questions(page, fault)
    \/ \E id \in DeleteIds, fault \in Faults : delete_question(id, fault)
    \/ \E data \in CreateBodies, front \in BOOLEAN, fault \in Faults :
          create_question(data, front, fault)
    \/ \E data \in SearchBodies, page \in FewPages, fault \in Faults :
          search_questions(data, page, fault)
    \/ \E id \in CategoryIds, page \in FewPages, fault \in Faults :
          get_questions_by_category(id, page, fault)
    \/ \E data \in QuizBodies, fault \in Faults :
          quiz_get_next_question(data, fault)
    \/ quiz_loop

Next == Step({FALSE})

Spec == Init /\ [][Next]_vars

NextFault == Step(BOOLEAN)

SpecFault == Init /\ [][NextFault]_vars

---------------------------------------------------------------------------
(* Vocabulary of the properties *)

StoredIds == {rows[i].id : i \in DOMAIN rows}

Stored == {Format(rows[i]) : i \in DOMAIN rows}

\* the stored question with exactly k - 1 stored questions of smaller id
OfRank(k) ==
    CHOOSE q \in Stored : Cardinality({r \in Stored : r.id < q.id}) = k - 1

\* the page number of the request; no page argument means page 1
PageOf(r) == IF r.page = <<>> THEN 1 ELSE r.page[1]

\* the number of questions the 1-based page p of n questions holds
OnPage(p, n) ==
    Max(0, Min(QUESTIONS_PER_PAGE, n - QUESTIONS_PER_PAGE * (p - 1)))

\* C1: for a table of N questions and a page p with 1 <= p <= ceil(N/10),
\* GET /questions?page=p answers 200 with min(10, N - 10*(p-1)) questions,
\* those at positions 10*(p-1) .. 10*(p-1)+9 of the id-ascending order, and
\* total_questions = N.
C1_PageOfQuestions ==
    LET N == Len(rows)
        p == PageOf(req)
    IN  (req.route = "GET /questions"
         /\ 1 <= p /\ p <= (N + QUESTIONS_PER_PAGE - 1) \div QUESTIONS_PER_PAGE)
        => /\ resp.status = 200
           /\ resp.success
           /\ Len(resp.questions) = Min(10, N - 10 * (p - 1))
           /\ \A i \in DOMAIN resp.questions :
                  resp.questions[i] = OfRank(10 * (p - 1) + i)
           /\ resp.total_questions = N

\* page 2 of a table of more than 10 questions that is not held in id order
C1_Witness ==
    /\ req.route = "GET /questions"
    /\ req.page = <<2>>
    /\ resp.status = 200
    /\ Len(resp.questions) \in 1..9
    /\ rows[1].id = MaxSeed + 1

\* C2: GET /questions answers 404 "Resource not found" whenever the 1-based
\* page p holds no question (p beyond the data, p = 0, p negative, or an
\* empty table), never 200 with questions.
C2_OutOfBoundsIs404 ==
    LET N == Len(rows)
        p == PageOf(req)
    IN  (req.route = "GET /questions" /\ (p < 1 \/ 10 * (p - 1) >= N))
        => /\ resp.status = 404
           /\ resp.message = "Resource not found"
           /\ resp.questions = <<>>

\* C3: DELETE /questions/{id} answers 200 "Question successfully deleted" and
\* leaves no question of that id when one was stored, and answers 422 when
\* none was; so a second DELETE of a deleted id answers 422.
C3_Delete ==
    [][(pc = "idle" /\ req'.route = "DELETE /questions/<id>")
       => IF req'.id \in StoredIds
          THEN /\ resp'.status = 200
               /\ resp'.message = "Question successfully deleted"
               /\ \A i \in DOMAIN rows' : rows'[i].id # req'.id
          ELSE /\ resp'.status = 422
               /\ rows' = rows]_vars

\* the created question was deleted, and a further DELETE of its id got 422
C3_Witness ==
    /\ req.route = "DELETE /questions/<id>"
    /\ req.id = MaxSeed + 1
    /\ nextId > MaxSeed + 1
    /\ resp.status = 422
    /\ Len(rows) > 0

IsBlank(v) == v.t = "absent" \/ (v.t = "str" /\ v.s = <<>>)

\* C4: POST /questions answers 422 and stores nothing when one of question,
\* answer, difficulty, category is missing or the empty string; with all four
\* given it answers 201 "Question successfully created!" and stores exactly
\* one more question when the storage succeeds, and 422 when it faults.
C4_Create ==
    [][(pc = "idle" /\ req'.route = "POST /questions")
       => IF \E f \in Fields : IsBlank(req'.body[f])
          THEN /\ resp'.status = 422
               /\ Len(rows') = Len(rows)
          ELSE IF faulted'
          THEN resp'.status = 422
          ELSE /\ resp'.status = 201
               /\ resp'.message = "Question successfully created!"
               /\ Len(rows') = Len(rows) + 1]_vars

\* a body whose only defect is an empty category was refused
C4_Witness ==
    /\ req.route = "POST /questions"
    /\ req.body.category = JStr(<<>>)
    /\ \A f \in Fields \ {"category"} : ~IsBlank(req.body[f])
    /\ resp.status = 422
    /\ Len(rows) > 0

\* C5: when POST /quizzes answers 200, the question returned is a stored one,
\* its id is not in previous_questions, and its category is quiz_category.id
\* unless that id is 0.
C5_QuizQuestion ==
    (req.route = "POST /quizzes" /\ resp.status = 200)
    => /\ Len(resp.question) = 1
       /\ resp.question[1] \in Stored
       /\ \A i \in DOMAIN req.body.previous_questions.l :
              req.body.previous_questions.l[i] # resp.question[1].id
       /\ req.body.quiz_category.n # 0
              => resp.question[1].category = req.body.quiz_category.n

\* a quiz of category 2 with question 1 already asked got another question
C5_Witness ==
    /\ req.route = "POST /quizzes"
    /\ req.body.quiz_category = JObj(2)
    /\ req.body.previous_questions = JList(<<1>>)
    /\ 1 \in StoredIds
    /\ resp.status = 200

\* the k-th question of category c, in the order the table holds them
OfCategoryAt(c, k) ==
    LET j == CHOOSE i \in DOMAIN rows :
                 /\ rows[i].category = c
                 /\ Cardinality({h \in 1..(i - 1) : rows[h].category = c}) = k - 1
    IN  Format(rows[j])

Contains(text, term) ==
    \E i \in 0..(Len(text) - Len(term)) :
        \A j \in 1..Len(term) : Lower(text[i + j]) = Lower(term[j])

\* the k-th stored question whose text contains the term, in table order
ContainingAt(term, k) ==
    LET j == CHOOSE i \in DOMAIN rows :
                 /\ Contains(rows[i].question, term)
                 /\ Cardinality({h \in 1..(i - 1) :
                                    Contains(rows[h].question, term)}) = k - 1
    IN  Format(rows[j])

\* C7: POST /questions/search answers 422 for an empty or missing searchTerm,
\* 404 for a term that no stored question text contains (letter case aside),
\* and otherwise 200 with the requested page of exactly the questions whose
\* text contains the term, and total_questions the count of all questions.
C7_Search ==
    LET term == req.body.searchTerm
        p == PageOf(req)
        M == Cardinality({i \in DOMAIN rows : Contains(rows[i].question, term.s)})
    IN  req.route = "POST /questions/search"
        => IF IsBlank(term) THEN resp.status = 422
           ELSE IF M = 0 THEN resp.status = 404
           ELSE /\ resp.status = 200
                /\ \A i \in DOMAIN resp.questions :
                       /\ resp.questions[i] \in Stored
                       /\ Contains(resp.questions[i].question, term.s)
                /\ p >= 1 =>
                       /\ Len(resp.questions) = OnPage(p, M)
                       /\ \A i \in DOMAIN resp.questions :
                              resp.questions[i] = ContainingAt(term.s, 10 * (p - 1) + i)
                /\ resp.total_questions = Len(rows)

Listed(route) ==
    CASE route = "GET /categories" -> {200, 500}
      [] route = "GET /questions" -> {200, 404}
      [] route = "DELETE /questions/<id>" -> {200, 404, 422}
      [] route = "POST /questions" -> {201, 422}
      [] route = "POST /questions/search" -> {200, 404, 422}
      [] route = "GET /categories/<id>/questions" -> {200, 422}
      [] route = "POST /quizzes" -> {200, 400}

FixedMessage(code) ==
    CASE code = 400 -> "Bad request error"
      [] code = 404 -> "Resource not found"
      [] code = 422 -> "Unprocessable entity"
      [] code = 500 -> "An error has occured, please try again"
      [] OTHER -> ""

\* C9: whatever is stored, whatever the request and whatever the storage
\* calls do, the status of a response is one the interface table lists for
\* the route, and a response that is no success carries success = false, the
\* status as error and the fixed message of the status.
C9_ListedStatus ==
    resp.status # 0
    => /\ resp.status \in Listed(req.route)
       /\ resp.status \notin {200, 201}
              => /\ resp.success = FALSE
                 /\ resp.error = resp.status
                 /\ resp.message = FixedMessage(resp.status)

\* C10: a POST /quizzes with both fields given always comes to a response:
\* while the draw loop runs, a draw that ends it is possible, or the loop
\* stops because every candidate's id is in previous_questions.
C10_QuizTerminates ==
    pc = "quiz_loop"
    => \E k \in DOMAIN quiz.questions :
           \A i \in DOMAIN req.body.previous_questions.l :
               req.body.previous_questions.l[i] # quiz.questions[k].id

\* the stored questions after the step
StoredAfter == {Format(rows'[i]) : i \in DOMAIN rows'}

\* C11: over any sequence of requests the stored data changes only on a 201
\* create, which adds exactly one question, of an id not stored, and on a 200
\* delete, which removes exactly the question of the requested id; every
\* other request, and every request answered 400, 404, 422 or 500, leaves
\* the questions as they were, and no request changes the categories.
C11_Frame ==
    [][/\ categories' = categories
       /\ Len(rows') = Cardinality(StoredAfter)
       /\ IF pc = "idle" /\ req'.route = "POST /questions" /\ resp'.status = 201
          THEN \E q \in StoredAfter :
                   /\ q.id \notin StoredIds
                   /\ q.id >= nextId
                   /\ nextId' > q.id
                   /\ StoredAfter = Stored \cup {q}
          ELSE IF pc = "idle" /\ req'.route = "DELETE /questions/<id>"
                  /\ resp'.status = 200
          THEN \E q \in Stored :
                   /\ q.id = req'.id
                   /\ StoredAfter = Stored \ {q}
          ELSE /\ StoredAfter = Stored
               /\ nextId' = nextId]_vars

\* the storage raised while deleting a stored question, which is still stored
C11_Witness ==
    /\ req.route = "DELETE /questions/<id>"
    /\ faulted
    /\ resp.status = 422
    /\ req.id \in StoredIds
    /\ Len(rows) < MaxSeed
====
